---------------------------- MODULE Spec2Model ----------------------------
(***************************************************************************)
(* State-machine model of the flash-card application (src/script.js): the  *)
(* deck/card store, the confirm dialog, the study session, the keyboard    *)
(* handler and the localStorage persistence.                               *)
(*                                                                         *)
(* Conventions.                                                            *)
(*  - Arrays are sequences (1-based); a JavaScript index i is i + 1 here.  *)
(*  - A nullable reference is <<>> (null) or <<id>>: the code only ever    *)
(*    reads the .id of selectedDeck, editingDeck, editingCard and of the   *)
(*    entries of studyCards, so a reference is modelled by that id.        *)
(*  - Text is a sequence of characters, so that trim() is computed.        *)
(*  - new Date().toISOString() is the token Now: no code compares times.   *)
(*  - The contents of deckForm / cardForm at submit time are whatever the  *)
(*    user typed into the bound inputs; saveDeck and saveCard draw them    *)
(*    from DeckForms / CardForms.                                          *)
(*  - The watcher of line 71 runs saveData after a handler that mutated    *)
(*    decks, cards or totalSessions; it is part of the handler's action.   *)
(*  - outcome records how the last handler ended: the type of the toast it *)
(*    showed ("success", "info", "error"), the early return or exception   *)
(*    that ended it, or "done".                                            *)
(***************************************************************************)
EXTENDS Integers, Sequences, FiniteSets, TLC

VARIABLES
    mounted,          \* onMounted has run
    listening,        \* the keydown listener is registered (line 418)
    storage,          \* localStorage item 'flashmaster_data'
    outcome,          \* history: how the last handler ended
    nextId,           \* source of generateId: ids are never reused
    view,
    selectedDeck,
    decks,
    cards,
    totalSessions,
    showDeckModal,
    showCardModal,
    showConfirm,
    confirmCallback,
    editingDeck,
    editingCard,
    studyCards,
    studyIndex,
    isFlipped,
    studyCorrect,
    studyWrong,
    sessionsAtStart   \* history: totalSessions when the queue was last built

vars == <<mounted, listening, storage, outcome, nextId, view, selectedDeck, decks,
          cards, totalSessions, showDeckModal, showCardModal, showConfirm,
          confirmCallback, editingDeck, editingCard, studyCards, studyIndex,
          isFlipped, studyCorrect, studyWrong, sessionsAtStart>>

storeVars == <<decks, cards, totalSessions>>
modalVars == <<showDeckModal, showCardModal, showConfirm, confirmCallback,
               editingDeck, editingCard>>
studyVars == <<studyCards, studyIndex, isFlipped, studyCorrect, studyWrong,
               sessionsAtStart>>

-----------------------------------------------------------------------------
\* Bounds of the model.
MaxNewIds == 2
MaxReview == 1
MaxSessions == 1
MaxRated == 40

-----------------------------------------------------------------------------
\* Values.
NULL == <<>>
Undefined == "undefined"
Null == "null"
Now == "now"

DefaultEmoji == "books"
DefaultColor == "#6c5ce7"

Ratings == {"hard", "medium", "easy"}
Keys == {"Escape", "Space", "1", "2", "3", "x"}

\* What the user may have typed into the forms when submitting.
DeckNames == {<<>>, <<" ">>, <<"a", " ">>}
DeckForms == [name : DeckNames, emoji : {DefaultEmoji}, color : {DefaultColor}]
CardFronts == {<<>>, <<" ", "q">>}
CardBacks == {<<" ">>, <<"s">>}
CardForms == [front : CardFronts, back : CardBacks]

\* String.prototype.trim on a sequence of characters.
RECURSIVE TrimLeft(_)
TrimLeft(s) ==
    IF s # <<>> /\ Head(s) = " " THEN TrimLeft(Tail(s)) ELSE s

RECURSIVE TrimRight(_)
TrimRight(s) ==
    IF s # <<>> /\ s[Len(s)] = " " THEN TrimRight(SubSeq(s, 1, Len(s) - 1)) ELSE s

\* A faulty trim: the text is taken as typed.
TrimNothing(s) == s

Trim(s) == TrimRight(TrimLeft(s))

\* A faulty lookup: an id that is not found yields the last position.
FindIndexOrLast(arr, id) ==
    IF \E i \in 1..Len(arr) : arr[i].id = id
    THEN CHOOSE i \in 1..Len(arr) :
            /\ arr[i].id = id
            /\ \A j \in 1..(i - 1) : arr[j].id # id
    ELSE Len(arr)

\* Array.prototype.findIndex(x => x.id === id): 0 stands for -1.
FindIndex(arr, id) ==
    IF \E i \in 1..Len(arr) : arr[i].id = id
    THEN CHOOSE i \in 1..Len(arr) :
            /\ arr[i].id = id
            /\ \A j \in 1..(i - 1) : arr[j].id # id
    ELSE 0

\* The computed percentages are IEEE 754 doubles.  A positive number is
\* [int, frac, exp]: (int + frac[1]/Base + ... + frac[4]/Base^4) * 2^exp,
\* with int >= 1 and four limbs of 13 bits; a double has 53 significant bits.
\* Every intermediate integer of the arithmetic stays small.
Base == 2^13

\* frac + k units of the last limb, k <= Base: the carry out, then the limbs.
AddUnits(frac, k) ==
    LET n4 == frac[4] + k
        n3 == frac[3] + n4 \div Base
        n2 == frac[2] + n3 \div Base
        n1 == frac[1] + n2 \div Base
    IN <<n1 \div Base, n1 % Base, n2 % Base, n3 % Base, n4 % Base>>

\* Round to nearest, ties to even, at the unit `ulp` of the last limb (a
\* power of 2): what is below the unit is dropped, and `more` tells whether
\* the exact number has a non-zero part below the limbs.
RoundToDouble(int, frac, exp, ulp, more) ==
    LET kept == (frac[4] \div ulp) * ulp
        dropped == frac[4] % ulp
        half == ulp \div 2
        above == IF ulp > 1 THEN dropped > half \/ (dropped = half /\ more)
                 ELSE more
        tie == IF ulp > 1 THEN dropped = half /\ ~more ELSE FALSE
        up == above \/ (tie /\ (kept \div ulp) % 2 = 1)
        down == <<frac[1], frac[2], frac[3], kept>>
        sum == AddUnits(down, ulp)
    IN IF up THEN [int |-> int + sum[1], frac |-> Tail(sum), exp |-> exp]
       ELSE [int |-> int, frac |-> down, exp |-> exp]

\* The least e with num * 2^e >= den.
RECURSIVE ShiftToUnit(_, _)
ShiftToUnit(num, den) == IF num >= den THEN 0 ELSE 1 + ShiftToUnit(2 * num, den)

\* The double num / den, for integers 0 < num <= den: long division, four
\* limbs after the leading 1, then the rounding on the remainder.
Quotient(num, den) ==
    LET e == ShiftToUnit(num, den)
        r0 == num * 2^e - den
        r1 == (r0 * Base) % den
        r2 == (r1 * Base) % den
        r3 == (r2 * Base) % den
        r4 == (r3 * Base) % den
        frac == <<(r0 * Base) \div den, (r1 * Base) \div den,
                  (r2 * Base) \div den, (r3 * Base) \div den>>
        up == 2 * r4 > den \/ (2 * r4 = den /\ frac[4] % 2 = 1)
        sum == AddUnits(frac, 1)
    IN IF up THEN [int |-> 1 + sum[1], frac |-> Tail(sum), exp |-> 0 - e]
       ELSE [int |-> 1, frac |-> frac, exp |-> 0 - e]

\* The double x * 100 for a double x with int = 1: the exact product, limb
\* by limb from the last, then the rounding to 53 bits, of which the integer
\* part of the product takes 7 (below 128) or 8.
Times100(x) ==
    LET v4 == 100 * x.frac[4]
        v3 == 100 * x.frac[3] + v4 \div Base
        v2 == 100 * x.frac[2] + v3 \div Base
        v1 == 100 * x.frac[1] + v2 \div Base
        int == 100 * x.int + v1 \div Base
        frac == <<v1 % Base, v2 % Base, v3 % Base, v4 % Base>>
    IN RoundToDouble(int, frac, x.exp, IF int < 128 THEN 64 ELSE 128, FALSE)

\* Math.round of a positive double with exp <= 0: floor(x + 1/2).
MathRound(x) ==
    IF x.exp = 0
    THEN x.int + (IF 2 * x.frac[1] >= Base THEN 1 ELSE 0)
    ELSE (x.int + 2^((0 - x.exp) - 1)) \div 2^(0 - x.exp)

\* Math.round((num / den) * 100) for integers 0 <= num <= den, den > 0.
RoundPercent(num, den) ==
    IF num = 0 THEN 0 ELSE MathRound(Times100(Quotient(num, den)))

-----------------------------------------------------------------------------
\* Records of the store.
DeckFields == {"id", "name", "emoji", "color", "createdAt"}
CardFields == {"id", "deckId", "front", "back", "difficulty", "reviewCount",
               "lastReviewed", "createdAt"}

\* The object literal pushed by saveDeck.
NewDeck(id, form) ==
    [id |-> id, name |-> Trim(form.name), emoji |-> form.emoji,
     color |-> form.color, createdAt |-> Now]

\* The object literal pushed by saveCard.
NewCard(id, deckId, form) ==
    [id |-> id, deckId |-> deckId, front |-> Trim(form.front),
     back |-> Trim(form.back), difficulty |-> "new", reviewCount |-> 0,
     lastReviewed |-> Null, createdAt |-> Now]

-----------------------------------------------------------------------------
\* Persistence.  The stored item is absent, or a text; a text is modelled by
\* what JSON.parse makes of it: a SyntaxError, the value null, or an object.
\* A JSON object carries only the properties that were defined when it was
\* written: JSON.stringify omits a property whose value is undefined, and
\* reading a property that is not there yields undefined.
Get(obj, f) == IF f \in DOMAIN obj THEN obj[f] ELSE Undefined

\* The properties of a record that JSON.stringify writes.
Defined(obj) ==
    {f \in DOMAIN obj : ~(f = "difficulty" /\ obj[f] = Undefined)}

\* A faulty serialisation: a property whose value is null is omitted too.
ToJSONDropsNull(obj) ==
    [f \in {g \in Defined(obj) : ~(g = "lastReviewed" /\ obj[g] = Null)} |->
        obj[f]]

ToJSON(obj) == [f \in Defined(obj) |-> obj[f]]

\* The object JSON.parse builds, read through the fields the code uses.
FromJSON(j, fields) == [f \in fields |-> Get(j, f)]

\* JSON.stringify(data) of saveData, then what getItem returns for it.
JSONstringify(data) ==
    [kind |-> "object",
     value |-> [decks |-> [i \in 1..Len(data.decks) |-> ToJSON(data.decks[i])],
                cards |-> [i \in 1..Len(data.cards) |-> ToJSON(data.cards[i])],
                totalSessions |-> data.totalSessions]]

\* saveData: the snapshot written by the watcher.
SnapshotOf(ds, cs, n) == [decks |-> ds, cards |-> cs, totalSessions |-> n]

\* Items a previous run, or anything else, may have left in localStorage.
AbsentItem == [kind |-> "absent"]
UnparsableItem == [kind |-> "unparsable"]
NullItem == [kind |-> "null"]

SavedDecks ==
    << [id |-> 1, name |-> <<"a">>, emoji |-> DefaultEmoji,
        color |-> DefaultColor, createdAt |-> Now],
       [id |-> 2, name |-> <<"b">>, emoji |-> DefaultEmoji,
        color |-> DefaultColor, createdAt |-> Now] >>

SavedCard(id, deckId) ==
    [id |-> id, deckId |-> deckId, front |-> <<"q">>, back |-> <<"s">>,
     difficulty |-> "new", reviewCount |-> 0, lastReviewed |-> Null,
     createdAt |-> Now]

SavedCards == <<SavedCard(3, 1), SavedCard(4, 2), SavedCard(5, 1)>>

\* Two decks and three cards, as a previous run saved them.
SavedItem == JSONstringify(SnapshotOf(SavedDecks, SavedCards, 0))

InitialItems == {AbsentItem, UnparsableItem, NullItem}

\* Items of an earlier version: a card written without a difficulty (the
\* code reads one with !c.difficulty and priority[...] ?? 1), and an object
\* that holds decks but neither cards nor totalSessions (the || of loadData).
LegacyCard ==
    [f \in CardFields \ {"difficulty"} |-> SavedCard(3, 1)[f]]
LegacyItem ==
    [kind |-> "object",
     value |-> [decks |-> <<ToJSON(SavedDecks[1])>>,
                cards |-> <<LegacyCard>>,
                totalSessions |-> 0]]
DecksOnlyItem ==
    [kind |-> "object", value |-> [decks |-> <<ToJSON(SavedDecks[1])>>]]

\* The first id generateId hands out: above every id a saved item holds.
FirstNewId == Len(SavedDecks) + Len(SavedCards) + 1

\* A faulty loadData, without try/catch: an unparsable item or the value
\* null makes the exception leave the function.
loadDataUncaught(raw) ==
    LET none == [assigned |-> FALSE, decks |-> <<>>, cards |-> <<>>,
                 totalSessions |-> 0, logged |-> FALSE, threw |-> FALSE]
    IN CASE raw.kind = "absent" -> none
         [] raw.kind = "unparsable" -> [none EXCEPT !.threw = TRUE]
         [] raw.kind = "null" -> [none EXCEPT !.threw = TRUE]
         [] OTHER ->
              LET data == raw.value
                  ds == IF "decks" \in DOMAIN data THEN data.decks ELSE <<>>
                  cs == IF "cards" \in DOMAIN data THEN data.cards ELSE <<>>
                  n == IF "totalSessions" \in DOMAIN data
                       THEN data.totalSessions ELSE 0
              IN [assigned |-> TRUE,
                  decks |-> [i \in 1..Len(ds) |-> FromJSON(ds[i], DeckFields)],
                  cards |-> [i \in 1..Len(cs) |-> FromJSON(cs[i], CardFields)],
                  totalSessions |-> n, logged |-> FALSE, threw |-> FALSE]

\* loadData (lines 56-68) as a function of the stored item: whether the refs
\* were assigned, their values, whether the catch block logged, and whether
\* an exception left the function.
loadData(raw) ==
    LET none == [assigned |-> FALSE, decks |-> <<>>, cards |-> <<>>,
                 totalSessions |-> 0, logged |-> FALSE, threw |-> FALSE]
    IN CASE raw.kind = "absent" -> none
         [] raw.kind = "unparsable" -> [none EXCEPT !.logged = TRUE]
         [] raw.kind = "null" -> [none EXCEPT !.logged = TRUE]
         [] OTHER ->
              LET data == raw.value
                  ds == IF "decks" \in DOMAIN data THEN data.decks ELSE <<>>
                  cs == IF "cards" \in DOMAIN data THEN data.cards ELSE <<>>
                  n == IF "totalSessions" \in DOMAIN data
                       THEN data.totalSessions ELSE 0
              IN [assigned |-> TRUE,
                  decks |-> [i \in 1..Len(ds) |-> FromJSON(ds[i], DeckFields)],
                  cards |-> [i \in 1..Len(cs) |-> FromJSON(cs[i], CardFields)],
                  totalSessions |-> n, logged |-> FALSE, threw |-> FALSE]

\* The watcher's saveData, run after a handler that mutated the store.
saveData == storage' = JSONstringify(SnapshotOf(decks', cards', totalSessions'))

\* A handler that left the store alone: nothing is written.
noSave == storage' = storage

\* showToast (lines 74-85), by the type of the toast, and the other ways a
\* handler ends.
showToast(type) == outcome' = type
ended(how) == outcome' = how

-----------------------------------------------------------------------------
\* The state setup() leaves, for a stored item among `items`.
InitWith(items) ==
    /\ mounted = FALSE
    /\ listening = FALSE
    /\ storage \in items
    /\ outcome = "setup"
    /\ nextId = FirstNewId
    /\ view = "decks"
    /\ selectedDeck = NULL
    /\ decks = <<>>
    /\ cards = <<>>
    /\ totalSessions = 0
    /\ showDeckModal = FALSE
    /\ showCardModal = FALSE
    /\ showConfirm = FALSE
    /\ confirmCallback = NULL
    /\ editingDeck = NULL
    /\ editingCard = NULL
    /\ studyCards = <<>>
    /\ studyIndex = 0
    /\ isFlipped = FALSE
    /\ studyCorrect = 0
    /\ studyWrong = 0
    /\ sessionsAtStart = 0

Init == InitWith(InitialItems)

\* onMounted (lines 416-437): loadData, then the keydown listener.  An
\* exception leaving loadData would end the hook before addEventListener.
onMounted ==
    /\ ~mounted
    /\ mounted' = TRUE
    /\ LET ld == loadData(storage)
       IN /\ listening' = ~ld.threw
          /\ decks' = ld.decks
          /\ cards' = ld.cards
          /\ totalSessions' = ld.totalSessions
          /\ IF ld.assigned THEN saveData ELSE noSave
          /\ ended(IF ld.threw THEN "threw"
                   ELSE IF ld.logged THEN "loadFailed" ELSE "done")
    /\ UNCHANGED <<nextId, view, selectedDeck, modalVars, studyVars>>

-----------------------------------------------------------------------------
\* Deck methods.

\* generateId (lines 88-90): a fresh id; the model allows MaxNewIds of them.
generateId == nextId
CanGenerateId == nextId < FirstNewId + MaxNewIds

\* A faulty filter: === for !==, which keeps the cards of the deck.
WithoutDeckInverted(cs, deckId) == SelectSeq(cs, LAMBDA c : c.deckId = deckId)

\* cards.value.filter(c => c.deckId !== deckId) and its likes.
WithoutDeck(cs, deckId) == SelectSeq(cs, LAMBDA c : c.deckId # deckId)
WithoutId(arr, id) == SelectSeq(arr, LAMBDA x : x.id # id)
OfDeck(cs, deckId) == SelectSeq(cs, LAMBDA c : c.deckId = deckId)

openNewDeckModal ==
    /\ mounted
    /\ editingDeck' = NULL
    /\ showDeckModal' = TRUE
    /\ noSave /\ ended("done")
    /\ UNCHANGED <<mounted, listening, nextId, view, selectedDeck, storeVars, studyVars,
                   showCardModal, showConfirm, confirmCallback, editingCard>>

editDeck(deck) ==
    /\ mounted
    /\ editingDeck' = <<deck.id>>
    /\ showDeckModal' = TRUE
    /\ noSave /\ ended("done")
    /\ UNCHANGED <<mounted, listening, nextId, view, selectedDeck, storeVars, studyVars,
                   showCardModal, showConfirm, confirmCallback, editingCard>>

\* saveDeck (lines 158-180) with deckForm = form.
saveDeck(form) ==
    /\ mounted
    /\ UNCHANGED <<mounted, listening, view, selectedDeck, cards, totalSessions, studyVars,
                   showCardModal, showConfirm, confirmCallback, editingDeck,
                   editingCard>>
    /\ IF Trim(form.name) = <<>>
       THEN /\ noSave /\ ended("rejected")
            /\ UNCHANGED <<decks, nextId, showDeckModal>>
       ELSE /\ IF editingDeck # NULL
               THEN LET idx == FindIndex(decks, editingDeck[1])
                    IN IF idx # 0
                       THEN /\ decks' = [decks EXCEPT ![idx] =
                                           [@ EXCEPT !.name = form.name,
                                                     !.emoji = form.emoji,
                                                     !.color = form.color]]
                            /\ saveData /\ showToast("success")
                            /\ UNCHANGED nextId
                       ELSE /\ noSave /\ ended("done")
                            /\ UNCHANGED <<decks, nextId>>
               ELSE /\ CanGenerateId
                    /\ decks' = Append(decks, NewDeck(generateId, form))
                    /\ nextId' = nextId + 1
                    /\ saveData /\ showToast("success")
            /\ showDeckModal' = FALSE


deleteDeck(deckId) ==
    /\ mounted
    /\ confirmCallback' = <<"deck", deckId>>
    /\ showConfirm' = TRUE
    /\ noSave /\ ended("done")
    /\ UNCHANGED <<mounted, listening, nextId, view, selectedDeck, storeVars, studyVars,
                   showDeckModal, showCardModal, editingDeck, editingCard>>

selectDeck(deck) ==
    /\ mounted
    /\ selectedDeck' = <<deck.id>>
    /\ noSave /\ ended("done")
    /\ UNCHANGED <<mounted, listening, nextId, view, storeVars, studyVars, modalVars>>

-----------------------------------------------------------------------------
\* Card methods.

openNewCardModal ==
    /\ mounted
    /\ editingCard' = NULL
    /\ showCardModal' = TRUE
    /\ noSave /\ ended("done")
    /\ UNCHANGED <<mounted, listening, nextId, view, selectedDeck, storeVars, studyVars,
                   showDeckModal, showConfirm, confirmCallback, editingDeck>>

editCard(card) ==
    /\ mounted
    /\ editingCard' = <<card.id>>
    /\ showCardModal' = TRUE
    /\ noSave /\ ended("done")
    /\ UNCHANGED <<mounted, listening, nextId, view, selectedDeck, storeVars, studyVars,
                   showDeckModal, showConfirm, confirmCallback, editingDeck>>

\* saveCard (lines 212-240) with cardForm = form.  With no deck selected,
\* selectedDeck.value.id raises a TypeError before anything is pushed.
saveCard(form) ==
    /\ mounted
    /\ UNCHANGED <<mounted, listening, view, selectedDeck, decks, totalSessions, studyVars,
                   showDeckModal, showConfirm, confirmCallback, editingDeck,
                   editingCard>>
    /\ IF Trim(form.front) = <<>> \/ Trim(form.back) = <<>>
       THEN /\ noSave /\ ended("rejected")
            /\ UNCHANGED <<cards, nextId, showCardModal>>
       ELSE IF editingCard # NULL
            THEN LET idx == FindIndex(cards, editingCard[1])
                 IN /\ IF idx # 0
                       THEN /\ cards' = [cards EXCEPT ![idx] =
                                           [@ EXCEPT !.front = Trim(form.front),
                                                     !.back = Trim(form.back)]]
                            /\ saveData /\ showToast("success")
                       ELSE /\ noSave /\ ended("done")
                            /\ UNCHANGED cards
                    /\ showCardModal' = FALSE
                    /\ UNCHANGED nextId
            ELSE IF selectedDeck = NULL
                 THEN /\ noSave /\ ended("TypeError")
                      /\ UNCHANGED <<cards, nextId, showCardModal>>
                 ELSE /\ CanGenerateId
                      /\ cards' = Append(cards,
                                     NewCard(generateId, selectedDeck[1], form))
                      /\ nextId' = nextId + 1
                      /\ saveData /\ showToast("success")
                      /\ showCardModal' = FALSE


\* A faulty deleteCard: the card is removed at once, without a confirmation.
deleteCardAtOnce(cardId) ==
    /\ mounted
    /\ UNCHANGED <<mounted, listening, nextId, view, selectedDeck, decks,
                   totalSessions, studyVars, modalVars>>
    /\ cards' = WithoutId(cards, cardId)
    /\ saveData /\ showToast("info")

deleteCard(cardId) ==
    /\ mounted
    /\ confirmCallback' = <<"card", cardId>>
    /\ showConfirm' = TRUE
    /\ noSave /\ ended("done")
    /\ UNCHANGED <<mounted, listening, nextId, view, selectedDeck, storeVars, studyVars,
                   showDeckModal, showCardModal, editingDeck, editingCard>>

\* A faulty callback: the deck goes, its cards stay.
deleteDeckCallbackNoCascade(deckId) ==
    /\ decks' = WithoutId(decks, deckId)
    /\ selectedDeck' = IF selectedDeck # NULL /\ selectedDeck[1] = deckId
                       THEN NULL ELSE selectedDeck
    /\ showToast("info")
    /\ UNCHANGED cards

\* A faulty callback: the selection is kept when its deck is deleted.
deleteDeckCallbackKeepsSelection(deckId) ==
    /\ cards' = WithoutDeck(cards, deckId)
    /\ decks' = WithoutId(decks, deckId)
    /\ showToast("info")
    /\ UNCHANGED selectedDeck

\* The callback deleteDeck stored (lines 184-191).
deleteDeckCallback(deckId) ==
    /\ cards' = WithoutDeck(cards, deckId)
    /\ decks' = WithoutId(decks, deckId)
    /\ selectedDeck' = IF selectedDeck # NULL /\ selectedDeck[1] = deckId
                       THEN NULL ELSE selectedDeck
    /\ showToast("info")

\* The callback deleteCard stored (lines 244-247).
deleteCardCallback(cardId) ==
    /\ cards' = WithoutId(cards, cardId)
    /\ UNCHANGED <<decks, selectedDeck>>
    /\ showToast("info")

\* The confirm button is part of the confirm dialog.
ConfirmDialogOpen == showConfirm

\* confirmAction (lines 251-257).
confirmAction ==
    /\ mounted
    /\ UNCHANGED <<mounted, listening, nextId, view, totalSessions, studyVars,
                   showDeckModal, showCardModal, editingDeck, editingCard>>
    /\ IF confirmCallback # NULL
       THEN /\ IF confirmCallback[1] = "deck"
               THEN deleteDeckCallback(confirmCallback[2])
               ELSE deleteCardCallback(confirmCallback[2])
            /\ saveData
       ELSE /\ noSave /\ ended("done")
            /\ UNCHANGED <<decks, cards, selectedDeck>>
    /\ confirmCallback' = NULL
    /\ showConfirm' = FALSE


-----------------------------------------------------------------------------
\* Study mode.

\* studyProgressPercent (lines 112-115).
studyProgressPercent ==
    IF Len(studyCards) = 0 THEN 0 ELSE RoundPercent(studyIndex, Len(studyCards))

\* studyAccuracy (lines 117-121).
studyAccuracy ==
    LET total == studyCorrect + studyWrong
    IN IF total = 0 THEN 0 ELSE RoundPercent(studyCorrect, total)

\* getDeckMastery (lines 139-144).
getDeckMastery(deckId) ==
    LET deckCards == OfDeck(cards, deckId)
        mastered == SelectSeq(deckCards, LAMBDA c : c.difficulty = "easy")
    IN IF Len(deckCards) = 0 THEN 0
       ELSE RoundPercent(Len(mastered), Len(deckCards))

\* priority[d] ?? 1 of the comparator of startStudyMode (lines 267-268).
Priority(d) ==
    CASE d = "hard" -> 0
      [] d = "new" -> 1
      [] d = "medium" -> 2
      [] d = "easy" -> 3
      [] OTHER -> 1

\* [...cards.value].sort(comparator): Array.prototype.sort is stable.
SortByPriority(cs) ==
    SelectSeq(cs, LAMBDA c : Priority(c.difficulty) = 0)
    \o SelectSeq(cs, LAMBDA c : Priority(c.difficulty) = 1)
    \o SelectSeq(cs, LAMBDA c : Priority(c.difficulty) = 2)
    \o SelectSeq(cs, LAMBDA c : Priority(c.difficulty) = 3)

\* The references held by a queue built from the cards cs.
Refs(cs) == [i \in 1..Len(cs) |-> cs[i].id]

\* A faulty swap: a[i] = a[j] alone, the old a[i] is lost.
SwapOverwrites(a, i, j) == [a EXCEPT ![i] = a[j]]

\* [a[i], a[j]] = [a[j], a[i]]
Swap(a, i, j) == [a EXCEPT ![i] = a[j], ![j] = a[i]]

\* The loop of shuffleArray from index i down: every j that Math.random can
\* select, for every array the earlier iterations can have produced.
RECURSIVE ShuffleFrom(_, _)
ShuffleFrom(S, i) ==
    IF i <= 1 THEN S
    ELSE ShuffleFrom({Swap(a, i, j) : a \in S, j \in 1..i}, i - 1)

\* shuffleArray (lines 367-374): the set of arrays it can return.
shuffleArray(arr) == ShuffleFrom({arr}, Len(arr))

\* A faulty start: the index of the previous session is kept.
beginSessionKeepsIndex(q) ==
    /\ studyCards' = q
    /\ studyIndex' = studyIndex
    /\ isFlipped' = FALSE
    /\ studyCorrect' = 0
    /\ studyWrong' = 0
    /\ view' = "study"
    /\ sessionsAtStart' = totalSessions

\* The assignments that open a session on queue q (lines 270-275, 284-289).
beginSession(q) ==
    /\ studyCards' = q
    /\ studyIndex' = 0
    /\ isFlipped' = FALSE
    /\ studyCorrect' = 0
    /\ studyWrong' = 0
    /\ view' = "study"
    /\ sessionsAtStart' = totalSessions

\* A faulty start: the check for an empty store is missing.
startStudyModeUnchecked ==
    /\ mounted
    /\ \E q \in shuffleArray(Refs(SortByPriority(cards))) : beginSession(q)
    /\ noSave /\ ended("done")
    /\ UNCHANGED <<mounted, listening, nextId, selectedDeck, storeVars, modalVars>>

startStudyMode ==
    /\ mounted
    /\ IF Len(cards) = 0
       THEN /\ noSave /\ showToast("error")
            /\ UNCHANGED <<view, studyVars>>
       ELSE /\ \E q \in shuffleArray(Refs(SortByPriority(cards))) : beginSession(q)
            /\ noSave /\ ended("done")
    /\ UNCHANGED <<mounted, listening, nextId, selectedDeck, storeVars, modalVars>>

studyDeck(deck) ==
    /\ mounted
    /\ LET deckCards == OfDeck(cards, deck.id)
       IN IF Len(deckCards) = 0
          THEN /\ noSave /\ showToast("error")
               /\ UNCHANGED <<view, studyVars>>
          ELSE /\ \E q \in shuffleArray(Refs(deckCards)) : beginSession(q)
               /\ noSave /\ ended("done")
    /\ UNCHANGED <<mounted, listening, nextId, selectedDeck, storeVars, modalVars>>

\* flipCard (lines 292-303); the animation is presentation.
flipCard == isFlipped' = ~isFlipped

\* A faulty update: the review is not counted.
RatedUncounted(card, rating) ==
    [card EXCEPT !.difficulty = rating, !.lastReviewed = Now]

\* The three assignments to cards.value[idx] (lines 309-311).
Rated(card, rating) ==
    [card EXCEPT !.difficulty = rating,
                 !.reviewCount = @ + 1,
                 !.lastReviewed = Now]

\* rating === 'hard' (line 314): the rating that counts as wrong.
CountsAsWrong(rating) == rating = "hard"

\* A faulty test: every rating counts as the end of a session.
SessionOverAtOnce(index, queue) == index >= 1

\* studyIndex.value >= studyCards.value.length (line 324), after the increment.
SessionOver(index, queue) == index >= Len(queue)

\* rateCard (lines 305-339).  Past the end of the queue `card` is undefined,
\* and the findIndex callback raises a TypeError on card.id as soon as it is
\* called, that is, when the store holds a card.
rateCard(rating) ==
    LET hasCard == studyIndex < Len(studyCards)
        idx == IF hasCard THEN FindIndex(cards, studyCards[studyIndex + 1]) ELSE 0
    IN IF ~hasCard /\ Len(cards) > 0
       THEN /\ noSave /\ ended("TypeError")
            /\ UNCHANGED <<cards, totalSessions, studyIndex, isFlipped,
                           studyCorrect, studyWrong>>
       ELSE /\ IF idx # 0
               THEN /\ cards[idx].reviewCount < MaxReview
                    /\ cards' = [cards EXCEPT ![idx] = Rated(@, rating)]
               ELSE UNCHANGED cards
            /\ IF CountsAsWrong(rating)
               THEN studyWrong' = studyWrong + 1 /\ UNCHANGED studyCorrect
               ELSE studyCorrect' = studyCorrect + 1 /\ UNCHANGED studyWrong
            /\ studyIndex' = studyIndex + 1
            /\ isFlipped' = FALSE
            /\ IF SessionOver(studyIndex + 1, studyCards)
               THEN /\ totalSessions < MaxSessions
                    /\ totalSessions' = totalSessions + 1
               ELSE UNCHANGED totalSessions
            /\ IF idx # 0 \/ SessionOver(studyIndex + 1, studyCards)
               THEN saveData ELSE noSave
            /\ ended("done")

\* A faulty restart: the counters of the previous round are kept.
restartStudyKeepsCounters ==
    /\ mounted
    /\ \E q \in shuffleArray(studyCards) : studyCards' = q
    /\ studyIndex' = 0
    /\ isFlipped' = FALSE
    /\ sessionsAtStart' = totalSessions
    /\ noSave /\ ended("done")
    /\ UNCHANGED <<mounted, listening, nextId, view, selectedDeck, storeVars, modalVars,
                   studyCorrect, studyWrong>>

\* A faulty restart: the queue is built again from the cards of the store.
restartStudyFromStore ==
    /\ mounted
    /\ \E q \in shuffleArray(Refs(SortByPriority(cards))) : studyCards' = q
    /\ studyIndex' = 0
    /\ isFlipped' = FALSE
    /\ studyCorrect' = 0
    /\ studyWrong' = 0
    /\ sessionsAtStart' = totalSessions
    /\ noSave /\ ended("done")
    /\ UNCHANGED <<mounted, listening, nextId, view, selectedDeck, storeVars, modalVars>>

\* restartStudy (lines 341-347).
restartStudy ==
    /\ mounted
    /\ \E q \in shuffleArray(studyCards) : studyCards' = q
    /\ studyIndex' = 0
    /\ isFlipped' = FALSE
    /\ studyCorrect' = 0
    /\ studyWrong' = 0
    /\ sessionsAtStart' = totalSessions
    /\ noSave /\ ended("done")
    /\ UNCHANGED <<mounted, listening, nextId, view, selectedDeck, storeVars, modalVars>>

exitStudy ==
    /\ mounted
    /\ view' = "decks"
    /\ noSave /\ ended("done")
    /\ UNCHANGED <<mounted, listening, nextId, selectedDeck, storeVars, modalVars, studyVars>>

\* The flip and rating controls belong to the card on display: a flip or rate
\* request is valid only in study view with a current card available.
CurrentCardAvailable == view = "study" /\ studyIndex < Len(studyCards)

\* A click on the card.
FlipClick ==
    /\ mounted
    /\ CurrentCardAvailable
    /\ flipCard
    /\ noSave /\ ended("done")
    /\ UNCHANGED <<mounted, listening, nextId, view, selectedDeck, storeVars, modalVars,
                   studyCards, studyIndex, studyCorrect, studyWrong,
                   sessionsAtStart>>

\* A click on one of the rating buttons.
RateClick(rating) ==
    /\ mounted
    /\ CurrentCardAvailable
    /\ UNCHANGED <<mounted, listening, nextId, view, selectedDeck, decks, modalVars,
                   studyCards, sessionsAtStart>>
    /\ rateCard(rating)


-----------------------------------------------------------------------------
\* A faulty test of line 402: the position in the queue is not looked at.
StudyKeysActivePastEnd == view = "study"

\* A faulty test of line 402: the view is not looked at.
StudyKeysActiveAnyView == Len(studyCards) > 0 /\ studyIndex < Len(studyCards)

\* A faulty test of line 407: the digits rate a card that is not flipped.
RatingKeysAlwaysActive == TRUE

\* The conditions of handleKeydown: a modal is open (line 393), the study
\* keys act (line 402), the rating keys act (line 407).
ModalOpen == showDeckModal \/ showCardModal \/ showConfirm
StudyKeysActive ==
    view = "study" /\ Len(studyCards) > 0 /\ studyIndex < Len(studyCards)
RatingKeysActive == isFlipped

\* The rating a digit key stands for (lines 408-410).
RatingOfKey(key) ==
    CASE key = "1" -> "hard"
      [] key = "2" -> "medium"
      [] key = "3" -> "easy"

\* handleKeydown (lines 392-413).
handleKeydown(key) ==
    /\ listening
    /\ UNCHANGED <<mounted, listening, nextId, view, selectedDeck, decks,
                   confirmCallback, editingDeck, editingCard, studyCards,
                   sessionsAtStart>>
    /\ IF ModalOpen
       THEN /\ IF key = "Escape"
               THEN /\ showDeckModal' = FALSE
                    /\ showCardModal' = FALSE
                    /\ showConfirm' = FALSE
               ELSE UNCHANGED <<showDeckModal, showCardModal, showConfirm>>
            /\ noSave /\ ended("done")
            /\ UNCHANGED <<cards, totalSessions, studyIndex, isFlipped,
                           studyCorrect, studyWrong>>
       ELSE /\ UNCHANGED <<showDeckModal, showCardModal, showConfirm>>
            /\ IF StudyKeysActive
               THEN IF key = "Space"
                    THEN /\ flipCard
                         /\ noSave /\ ended("done")
                         /\ UNCHANGED <<cards, totalSessions, studyIndex,
                                        studyCorrect, studyWrong>>
                    ELSE IF RatingKeysActive /\ key \in {"1", "2", "3"}
                         THEN rateCard(RatingOfKey(key))
                         ELSE /\ noSave /\ ended("done")
                              /\ UNCHANGED <<cards, totalSessions, studyIndex,
                                             isFlipped, studyCorrect, studyWrong>>
               ELSE /\ noSave /\ ended("done")
                    /\ UNCHANGED <<cards, totalSessions, studyIndex, isFlipped,
                                   studyCorrect, studyWrong>>


-----------------------------------------------------------------------------
\* The user's actions: lists show the decks and cards of the store.
OpenNewDeckModal == openNewDeckModal
EditDeck == \E i \in 1..Len(decks) : editDeck(decks[i])
SaveDeck == \E form \in DeckForms : saveDeck(form)
DeleteDeck == \E i \in 1..Len(decks) : deleteDeck(decks[i].id)
SelectDeck == \E i \in 1..Len(decks) : selectDeck(decks[i])
OpenNewCardModal == openNewCardModal
EditCard == \E i \in 1..Len(cards) : editCard(cards[i])
SaveCard == \E form \in CardForms : saveCard(form)
DeleteCard == \E i \in 1..Len(cards) : deleteCard(cards[i].id)
ConfirmAction == ConfirmDialogOpen /\ confirmAction
StartStudyMode == startStudyMode
StudyDeck == \E i \in 1..Len(decks) : studyDeck(decks[i])
Flip == FlipClick
Rate == \E rating \in Ratings : RateClick(rating)
RestartStudy == restartStudy
ExitStudy == exitStudy
Keydown == \E key \in Keys : handleKeydown(key)

\* Everything the user can do.
Next ==
    \/ onMounted
    \/ OpenNewDeckModal
    \/ EditDeck
    \/ SaveDeck
    \/ DeleteDeck
    \/ SelectDeck
    \/ OpenNewCardModal
    \/ EditCard
    \/ SaveCard
    \/ DeleteCard
    \/ ConfirmAction
    \/ StartStudyMode
    \/ StudyDeck
    \/ Flip
    \/ Rate
    \/ RestartStudy
    \/ ExitStudy
    \/ Keydown

\* The application started on an empty or unusable item: the user builds the
\* store, with at most MaxNewIds decks and cards.
Spec == Init /\ [][Next]_vars

\* A user who only studies.
NextStudy ==
    \/ onMounted
    \/ StartStudyMode
    \/ StudyDeck
    \/ Flip
    \/ Rate
    \/ RestartStudy
    \/ ExitStudy
    \/ Keydown

\* The application started on the saved item of two decks and three cards.
SpecStudy == InitWith({SavedItem}) /\ [][NextStudy]_vars

\* A user who selects and deletes, but opens no deck or card form.
NextDelete ==
    \/ onMounted
    \/ SelectDeck
    \/ DeleteDeck
    \/ DeleteCard
    \/ ConfirmAction
    \/ Keydown

SpecDelete == InitWith({SavedItem}) /\ [][NextDelete]_vars

\* A user who studies and deletes cards, also while a session exists.
NextSession ==
    \/ onMounted
    \/ StartStudyMode
    \/ StudyDeck
    \/ Flip
    \/ Rate
    \/ RestartStudy
    \/ ExitStudy
    \/ Keydown
    \/ DeleteCard
    \/ ConfirmAction

SpecSession == InitWith({SavedItem}) /\ [][NextSession]_vars

\* A store of one deck with MaxRated cards, in a session on all of them that
\* has one card left: w cards were rated hard and c easy, one after the other.
LongSession(c, w) ==
    /\ mounted = TRUE
    /\ listening = TRUE
    /\ outcome = "done"
    /\ nextId = MaxRated + 2
    /\ view = "study"
    /\ selectedDeck = NULL
    /\ decks = <<SavedDecks[1]>>
    /\ cards = [i \in 1..MaxRated |->
                  IF i <= w THEN Rated(SavedCard(i + 1, 1), "hard")
                  ELSE IF i <= w + c THEN Rated(SavedCard(i + 1, 1), "easy")
                  ELSE SavedCard(i + 1, 1)]
    /\ totalSessions = 0
    /\ storage = JSONstringify(SnapshotOf(decks, cards, totalSessions))
    /\ showDeckModal = FALSE
    /\ showCardModal = FALSE
    /\ showConfirm = FALSE
    /\ confirmCallback = NULL
    /\ editingDeck = NULL
    /\ editingCard = NULL
    /\ studyCards = [i \in 1..MaxRated |-> i + 1]
    /\ studyIndex = c + w
    /\ isFlipped = FALSE
    /\ studyCorrect = c
    /\ studyWrong = w
    /\ sessionsAtStart = 0

InitAccuracy == \E c \in 0..(MaxRated - 1) : LongSession(c, MaxRated - 1 - c)

\* The user ends the long session.
NextAccuracy ==
    \/ Flip
    \/ Rate
    \/ ExitStudy
    \/ Keydown

SpecAccuracy == InitAccuracy /\ [][NextAccuracy]_vars

\* A user who creates and deletes decks and creates, edits, rates and deletes
\* cards, with what these need: a selected deck, a card under edit, a confirm
\* dialog, a session.
NextMutate ==
    \/ onMounted
    \/ SelectDeck
    \/ SaveDeck
    \/ EditCard
    \/ SaveCard
    \/ DeleteDeck
    \/ DeleteCard
    \/ ConfirmAction
    \/ StartStudyMode
    \/ Rate

\* The application started on an item of an earlier version.
SpecLegacy == InitWith({LegacyItem, DecksOnlyItem}) /\ [][NextMutate]_vars

-----------------------------------------------------------------------------
\* Properties.

\* The ids and the records an array holds.
Ids(arr) == {arr[i].id : i \in 1..Len(arr)}
Elems(arr) == {arr[i] : i \in 1..Len(arr)}

\* C1: for every deck D, a confirmed deleteDeck(D.id) removes D and every
\* card whose deckId is D.id, and leaves every other deck and every card of
\* another deck in the store as the same record with the same field values.
C1_DeleteDeckCascade ==
    [][\A d \in Ids(decks) :
          (confirmAction /\ confirmCallback = <<"deck", d>>) =>
             /\ Elems(decks') = {x \in Elems(decks) : x.id # d}
             /\ Elems(cards') = {c \in Elems(cards) : c.deckId # d}
             /\ Len(decks') = Len(decks) - 1
             /\ Len(cards') =
                   Cardinality({i \in 1..Len(cards) : cards[i].deckId # d})]_vars

\* Deck 1 has just been deleted: deck 2 and its card 4 are what is left.
C1_Witness ==
    /\ outcome = "info"
    /\ confirmCallback = NULL
    /\ decks = <<SavedDecks[2]>>
    /\ cards = <<SavedCards[2]>>

\* C2: from a store without orphan cards, after any sequence of deck, card,
\* selection and study operations every card's deckId is the id of a deck
\* of the store.
C2_NoOrphanCards == \A i \in 1..Len(cards) : cards[i].deckId \in Ids(decks)

\* A deck and a card were created and a confirmed deletion emptied the store.
C2_Witness ==
    /\ outcome = "info"
    /\ nextId = FirstNewId + 2
    /\ decks = <<>>
    /\ cards = <<>>
    /\ storage = JSONstringify(SnapshotOf(<<>>, <<>>, totalSessions))

\* C3: in a session on a queue of N >= 1 cards, after exactly N ratings, with
\* any flips in between, the session is complete with index = N and
\* totalSessions is one more than it was at the start; before the N-th
\* rating totalSessions has not increased.
C3_SessionCountedOnce ==
    LET N == Len(studyCards)
        rated == studyCorrect + studyWrong
    IN (N >= 1 /\ rated <= N) =>
          /\ studyIndex = rated
          /\ totalSessions = sessionsAtStart + (IF rated = N THEN 1 ELSE 0)

\* A session on three cards has received its third rating.
C3_Witness ==
    /\ Len(studyCards) = 3
    /\ studyCorrect + studyWrong = 3
    /\ studyIndex = 3
    /\ totalSessions = sessionsAtStart + 1

Occurrences(q, x) == Cardinality({k \in 1..Len(q) : q[k] = x})

\* The next state holds a fresh session whose queue is a permutation of the
\* ids of the cards at the positions I of the store.
StartedOn(I) ==
    /\ Len(studyCards') = Cardinality(I)
    /\ \A k \in 1..Len(studyCards') : studyCards'[k] \in {cards[i].id : i \in I}
    /\ \A i \in I : Occurrences(studyCards', cards[i].id) =
                       Cardinality({j \in I : cards[j].id = cards[i].id})
    /\ studyIndex' = 0
    /\ isFlipped' = FALSE
    /\ studyCorrect' = 0
    /\ studyWrong' = 0

\* C5: for every non-empty source, study all cards (every card of the store)
\* and study one deck (the cards with that deckId) produce a queue that is a
\* permutation of the source, same multiset of ids and same length, with
\* index 0, flip false, correct 0 and wrong 0.
C5_StartYieldsPermutation ==
    [][/\ (startStudyMode /\ Len(cards) > 0) => StartedOn(1..Len(cards))
       /\ \A d \in 1..Len(decks) :
             LET I == {i \in 1..Len(cards) : cards[i].deckId = decks[d].id}
             IN (studyDeck(decks[d]) /\ I # {}) => StartedOn(I)]_vars

\* Deck 1 is being studied, its two cards in the order opposite to the store's.
C5_Witness ==
    /\ view = "study"
    /\ studyCards = <<5, 3>>
    /\ studyIndex = 0
    /\ studyCorrect + studyWrong = 0
    /\ ~isFlipped

\* C6: rating the current card, when its id is in the store, sets that store
\* card's difficulty to the rating, adds 1 to its reviewCount and sets its
\* lastReviewed; its other fields, every other card and every deck are
\* unchanged.
C6_RateUpdatesOneCard ==
    [][\A r \in Ratings :
          (/\ rateCard(r)
           /\ studyIndex < Len(studyCards)
           /\ studyCards[studyIndex + 1] \in Ids(cards)) =>
             /\ decks' = decks
             /\ Len(cards') = Len(cards)
             /\ \A i \in 1..Len(cards) :
                   IF cards[i].id = studyCards[studyIndex + 1]
                   THEN /\ cards'[i].difficulty = r
                        /\ cards'[i].reviewCount = cards[i].reviewCount + 1
                        /\ cards'[i].lastReviewed = Now
                        /\ \A f \in {"id", "deckId", "front", "back", "createdAt"} :
                              cards'[i][f] = cards[i][f]
                   ELSE cards'[i] = cards[i]]_vars

\* The first card of a session was rated medium; the other cards of the store
\* are as they were saved.
C6_Witness ==
    /\ Len(studyCards) = 3
    /\ studyIndex = 1
    /\ Len(cards) = 3
    /\ \A i \in 1..3 :
          IF cards[i].id = studyCards[1]
          THEN cards[i] = [SavedCards[i] EXCEPT !.difficulty = "medium",
                                                !.reviewCount = 1,
                                                !.lastReviewed = Now]
          ELSE cards[i] = SavedCards[i]

\* C7: a rating of hard increments only the wrong counter, a rating of
\* medium or easy only the correct counter; accuracy is the rounding of
\* 100 * correct / (correct + wrong) to the nearest integer, 0 when no rating
\* was given, and 67 after the ratings hard, medium, easy.
C7_AccuracyIsRounded ==
    /\ [](LET total == studyCorrect + studyWrong
          IN /\ total = 0 => studyAccuracy = 0
             /\ total > 0 =>
                   /\ 2 * total * studyAccuracy <= 200 * studyCorrect + total
                   /\ 200 * studyCorrect + total < 2 * total * (studyAccuracy + 1)
             /\ (studyCorrect = 2 /\ studyWrong = 1) => studyAccuracy = 67)
    /\ [][\A r \in Ratings :
             (rateCard(r) /\ studyIndex < Len(studyCards)) =>
                IF r = "hard"
                THEN studyWrong' = studyWrong + 1 /\ studyCorrect' = studyCorrect
                ELSE studyCorrect' = studyCorrect + 1 /\ studyWrong' = studyWrong]_vars

\* What a failed start leaves alone.
startVars == <<studyCards, studyIndex, isFlipped, studyCorrect, studyWrong,
               view, decks, cards, totalSessions, storage>>

\* C8: with an empty source, study all on a store without cards or study deck
\* on a deck without cards, the start changes no state: queue, index, flip,
\* counters, view, store and totalSessions stay, and no empty session is
\* ever started.
C8_EmptySourceStartsNothing ==
    /\ [](view = "study" => studyCards # <<>>)
    /\ [][/\ (startStudyMode /\ Len(cards) = 0) => UNCHANGED startVars
           /\ \A d \in 1..Len(decks) :
                 (/\ studyDeck(decks[d])
                  /\ \A i \in 1..Len(cards) : cards[i].deckId # decks[d].id)
                 => UNCHANGED startVars]_vars

\* A deck whose cards were deleted was asked for study while the session
\* of an earlier start, left after one rating, still exists.
C8_Witness ==
    /\ outcome = "error"
    /\ view = "decks"
    /\ Len(cards) = 2
    /\ Len(studyCards) = 3
    /\ studyIndex = 1

\* A text that is empty after trimming: nothing but spaces.
IsBlank(s) == \A i \in 1..Len(s) : s[i] = " "

\* C9: a deck create or update whose name is blank, and a card create or
\* update whose front or back is blank, changes none of decks, cards and
\* totalSessions and writes nothing to the storage.
C9_BlankSubmissionRejected ==
    [][/\ \A form \in DeckForms :
             (saveDeck(form) /\ IsBlank(form.name))
             => UNCHANGED <<decks, cards, totalSessions, storage>>
       /\ \A form \in CardForms :
             (saveCard(form) /\ (IsBlank(form.front) \/ IsBlank(form.back)))
             => UNCHANGED <<decks, cards, totalSessions, storage>>]_vars

\* A submission was rejected while an existing card was being edited.
C9_Witness ==
    /\ outcome = "rejected"
    /\ showCardModal
    /\ editingCard # NULL
    /\ editingCard[1] \in Ids(cards)

\* C10: when the stored item is absent or unparsable, loading leaves the
\* empty snapshot (no decks, no cards, totalSessions 0), and the failure is
\* not fatal: the application is mounted and handles keys and requests.
C10_UnusableItemLoadsEmpty ==
    [][(onMounted /\ storage.kind \in {"absent", "unparsable"}) =>
          /\ decks' = <<>>
          /\ cards' = <<>>
          /\ totalSessions' = 0
          /\ mounted'
          /\ listening']_vars

\* The application has just been mounted on an unparsable item.
C10_Witness ==
    /\ mounted
    /\ listening
    /\ outcome = "loadFailed"
    /\ storage = UnparsableItem
    /\ decks = <<>>
    /\ cards = <<>>
    /\ totalSessions = 0

\* The result of saving the store and loading what was saved.
Reloaded == loadData(JSONstringify(SnapshotOf(decks, cards, totalSessions)))

\* C11: after any sequence of store and session mutations, saving the
\* in-memory snapshot and loading it gives the same decks, the same cards
\* (difficulty, reviewCount and lastReviewed included) and the same
\* totalSessions, without a failure; and what the watcher has written to the
\* storage is that snapshot.
C11_SaveLoadRoundTrip ==
    mounted =>
       /\ Reloaded.assigned /\ ~Reloaded.logged /\ ~Reloaded.threw
       /\ Reloaded.decks = decks
       /\ Reloaded.cards = cards
       /\ Reloaded.totalSessions = totalSessions
       /\ storage.kind = "object" =>
             /\ loadData(storage).decks = decks
             /\ loadData(storage).cards = cards
             /\ loadData(storage).totalSessions = totalSessions

\* The store holds the card that was loaded without a difficulty and a card
\* that was created and then rated, and the storage holds the snapshot.
C11_Witness ==
    /\ mounted
    /\ storage = JSONstringify(SnapshotOf(decks, cards, totalSessions))
    /\ Len(cards) = 2
    /\ cards[1].difficulty = Undefined
    /\ cards[2].difficulty = "medium"
    /\ cards[2].reviewCount = 1
    /\ cards[2].lastReviewed = Now

\* How many cards of deck d the store holds, and how many of them are easy.
CardsIn(d) == Cardinality({i \in 1..Len(cards) : cards[i].deckId = d})
EasyIn(d) ==
    Cardinality({i \in 1..Len(cards) :
                    cards[i].deckId = d /\ cards[i].difficulty = "easy"})

\* C12: for every deck id, one without cards included, and every reachable
\* store, the mastery percentage is an integer from 0 to 100, is the rounding
\* of 100 * (easy cards of the deck) / (cards of the deck) to the nearest
\* integer, and is 0 when the deck has no cards.
C12_MasteryIsRounded ==
    \A d \in Ids(decks) \cup {0} :
       LET n == CardsIn(d)
           e == EasyIn(d)
           m == getDeckMastery(d)
       IN /\ m \in 0..100
          /\ n = 0 => m = 0
          /\ n > 0 => /\ 2 * n * m <= 200 * e + n
                      /\ 200 * e + n < 2 * n * (m + 1)

\* The digit keys.
DigitKeys == {"1", "2", "3"}

C14_RestartReshufflesQueue ==
    [][restartStudy =>
          /\ Len(studyCards') = Len(studyCards)
          /\ \A k \in 1..Len(studyCards) :
                Occurrences(studyCards', studyCards[k]) =
                   Occurrences(studyCards, studyCards[k])
          /\ studyIndex' = 0
          /\ isFlipped' = FALSE
          /\ studyCorrect' = 0
          /\ studyWrong' = 0
          /\ UNCHANGED <<decks, cards, totalSessions>>]_vars

\* A session on three cards, one of which was deleted from the store, was
\* rated to its end and restarted: the queue still has three entries.
C14_Witness ==
    /\ view = "study"
    /\ outcome = "done"
    /\ Len(studyCards) = 3
    /\ Len(cards) = 2
    /\ \A i \in 1..Len(cards) : cards[i].reviewCount = 1
    /\ totalSessions = 1
    /\ studyIndex = 0
    /\ studyCorrect = 0
    /\ studyWrong = 0
    /\ ~isFlipped

keyVars == <<decks, cards, totalSessions, storage, selectedDeck, view,
             studyCards, studyIndex, isFlipped, studyCorrect, studyWrong>>

\* C16: a key changes session or store state only when no deck, card or
\* confirm modal is open, the view is study and the session has a current
\* card; then the space key toggles the flip flag and nothing else, and the
\* digits 1, 2, 3 rate the current card hard, medium, easy if the flip flag
\* is true when the key is pressed and have no effect otherwise.
C16_KeysActOnCurrentCard ==
    [][\A key \in Keys :
          handleKeydown(key) =>
             LET active == /\ ~(showDeckModal \/ showCardModal \/ showConfirm)
                           /\ view = "study"
                           /\ studyIndex < Len(studyCards)
                 rating == IF key = "1" THEN "hard"
                           ELSE IF key = "2" THEN "medium" ELSE "easy"
             IN IF active /\ key = "Space"
                THEN /\ isFlipped' = ~isFlipped
                     /\ UNCHANGED <<decks, cards, totalSessions, storage,
                                    selectedDeck, view, studyCards, studyIndex,
                                    studyCorrect, studyWrong>>
                ELSE IF active /\ key \in DigitKeys /\ isFlipped
                THEN /\ studyIndex' = studyIndex + 1
                     /\ isFlipped' = FALSE
                     /\ studyWrong' = studyWrong + (IF rating = "hard" THEN 1 ELSE 0)
                     /\ studyCorrect' = studyCorrect + (IF rating = "hard" THEN 0 ELSE 1)
                     /\ \A i \in 1..Len(cards) :
                           (cards[i].id = studyCards[studyIndex + 1]) =>
                              (cards'[i].difficulty = rating)
                     /\ UNCHANGED <<decks, selectedDeck, view, studyCards>>
                ELSE UNCHANGED keyVars]_vars

\* The deck modal is open over a session whose current card is flipped.
C16_Witness ==
    /\ showDeckModal
    /\ view = "study"
    /\ isFlipped
    /\ studyIndex = 0
    /\ Len(studyCards) = 1
    /\ studyCards[1] \in Ids(cards)

\* C17: in every reachable state the selection is absent or is a deck of
\* the store; a confirmed deletion of the selected deck clears the selection,
\* and a confirmed deletion of another deck leaves it unchanged.
C17_SelectionRefersToDeck ==
    /\ [](selectedDeck = NULL \/ selectedDeck[1] \in Ids(decks))
    /\ [][\A d \in Ids(decks) :
             (confirmAction /\ confirmCallback = <<"deck", d>>) =>
                selectedDeck' = IF selectedDeck = <<d>> THEN NULL
                                ELSE selectedDeck]_vars

\* Two decks were created, one was selected and the other one deleted.
C17_Witness ==
    /\ outcome = "info"
    /\ nextId = FirstNewId + 2
    /\ Len(decks) = 1
    /\ selectedDeck = <<decks[1].id>>

\* The three numbers of a session.
counters == <<studyIndex, studyCorrect, studyWrong>>

\* C18: in every reachable state correct + wrong = index; a start and a
\* restart set the three to 0, a rating adds 1 to the index and to exactly one
\* of correct and wrong, and no other operation changes any of them.
C18_CountersSumToIndex ==
    /\ [](studyCorrect + studyWrong = studyIndex)
    /\ [][/\ ((startStudyMode /\ Len(cards) > 0) \/ restartStudy) =>
                counters' = <<0, 0, 0>>
          /\ \A d \in 1..Len(decks) :
                (studyDeck(decks[d]) /\ OfDeck(cards, decks[d].id) # <<>>) =>
                   counters' = <<0, 0, 0>>
          /\ counters' # counters =>
                \/ /\ startStudyMode \/ restartStudy
                       \/ \E d \in 1..Len(decks) : studyDeck(decks[d])
                   /\ counters' = <<0, 0, 0>>
                \/ /\ \E r \in Ratings : rateCard(r)
                   /\ studyIndex' = studyIndex + 1
                   /\ \/ studyCorrect' = studyCorrect + 1 /\ studyWrong' = studyWrong
                      \/ studyWrong' = studyWrong + 1 /\ studyCorrect' = studyCorrect]_vars

\* A session was restarted after two ratings, and the card that had no
\* review came first and was rated hard.
C18_Witness ==
    /\ view = "study"
    /\ Len(studyCards) = 3
    /\ studyIndex = 1
    /\ studyWrong = 1
    /\ studyCorrect = 0
    /\ Cardinality({i \in 1..Len(cards) : cards[i].reviewCount = 1}) = 3

\* The ids that a step removes from an array.
Removed(before, after) == Ids(before) \ Ids(after)

C20_RateOfMissingCard ==
    [][\A r \in Ratings :
          (/\ rateCard(r)
           /\ studyIndex < Len(studyCards)
           /\ studyCards[studyIndex + 1] \notin Ids(cards)) =>
             /\ UNCHANGED <<decks, cards>>
             /\ studyIndex' = studyIndex + 1
             /\ isFlipped' = FALSE
             /\ IF r = "hard"
                THEN studyWrong' = studyWrong + 1 /\ studyCorrect' = studyCorrect
                ELSE studyCorrect' = studyCorrect + 1 /\ studyWrong' = studyWrong
             /\ totalSessions' = totalSessions +
                   (IF studyIndex + 1 = Len(studyCards) THEN 1 ELSE 0)]_vars

\* The first entry of a queue of three was rated, its card is not in the
\* store, and no card of the store has a review.
C20_Witness ==
    /\ view = "study"
    /\ Len(studyCards) = 3
    /\ studyIndex = 1
    /\ studyCorrect + studyWrong = 1
    /\ studyCards[1] \notin Ids(cards)
    /\ Len(cards) = 2
    /\ \A i \in 1..Len(cards) : cards[i].reviewCount = 0

=============================================================================
